---- MODULE Spec2Model ----
(***************************************************************************)
(* Model of the robust evaluator: three strategy parsers, the schema       *)
(* validator, the strategy combiner (library and standalone variants),     *)
(* RobustEvaluator.invoke / batch_evaluate and the metrics aggregator.     *)
(***************************************************************************)
EXTENDS Integers, Sequences, FiniteSets, TLC

\* ------------------------------------------------------------------------
\* Bounds
\* ------------------------------------------------------------------------
\* Longest dataset handed to batch_evaluate.
MaxBatch == 2

\* ------------------------------------------------------------------------
\* Values
\* ------------------------------------------------------------------------
\* Python's None as a label value.
NULL == "None"

\* The ordered category list given to the evaluator (self.categories).
Categories == <<"BILLING", "CLAIMS">>

\* The members of the category list.
CategorySet == {Categories[i] : i \in 1..Len(Categories)}

\* A label string the collaborator can invent outside the category list.
OutOfSet == "TECHNICAL"

\* Every value the key call_type of a parsed response carries in the model.
LabelValues == CategorySet \cup {OutOfSet, NULL}

\* A parsed response: a JSON object ("map") with or without the key
\* call_type, or a JSON value that is no object ("list", "null").
\* "absent" stands for a key missing from parser_results.
MapOpinion(l) == [kind |-> "map", has |-> TRUE, call_type |-> l]
EmptyMap == [kind |-> "map", has |-> FALSE, call_type |-> NULL]
NonMap(k) == [kind |-> k, has |-> FALSE, call_type |-> NULL]
AbsentOpinion == NonMap("absent")

ParsedValues == {MapOpinion(l) : l \in LabelValues} \cup {EmptyMap, NonMap("list"), NonMap("null")}

\* isinstance(x, dict)
IsDict(o) == o.kind = "map"

\* x.get("call_type") on a dict
GetCallType(o) == IF o.has THEN o.call_type ELSE NULL

\* ------------------------------------------------------------------------
\* Outcomes of a call: a returned verdict, or the exception raised
\* ------------------------------------------------------------------------
\* A dict returned by a combiner; the keys confidence and needs_human may be absent,
\* has_debug tells whether the caller has stored the key _debug in it.
Verdict(l, c, nh) ==
    [status |-> "ok", call_type |-> l,
     has_confidence |-> TRUE, confidence |-> c,
     has_needs_human |-> nh, needs_human |-> nh,
     has_debug |-> FALSE]

Raised(e) ==
    [status |-> e, call_type |-> NULL,
     has_confidence |-> FALSE, confidence |-> "unknown",
     has_needs_human |-> FALSE, needs_human |-> FALSE,
     has_debug |-> FALSE]

Pending == Raised("pending")

\* result.get("confidence", "unknown")
GetConfidence(v) == IF v.has_confidence THEN v.confidence ELSE "unknown"

\* result.get("needs_human", False)
GetNeedsHuman(v) == IF v.has_needs_human THEN v.needs_human ELSE FALSE

\* {"call_type": None, "confidence": "low", "needs_human": True}
LowVerdict == Verdict(NULL, "low", TRUE)

\* ------------------------------------------------------------------------
\* SchemaValidator.invoke
\* ------------------------------------------------------------------------
SchemaValidator_invoke(parsed_output) ==
    IF ~IsDict(parsed_output) \/ ~parsed_output.has
    THEN FALSE
    ELSE parsed_output.call_type = NULL \/ parsed_output.call_type \in CategorySet

\* ------------------------------------------------------------------------
\* StrategyCombiner.invoke (library)
\* ------------------------------------------------------------------------
\* Mutant of rule 1: the backup label is returned without the "is not None" test.
InvalidPrimaryRule_noNullTest(backup_result) ==
    IF ~IsDict(backup_result) THEN Raised("AttributeError")
    ELSE Verdict(GetCallType(backup_result), "medium", FALSE)

\* Rule 1, "if not validation_result": use the backup opinion.
InvalidPrimaryRule(backup_result) ==
    IF ~IsDict(backup_result) THEN Raised("AttributeError")
    ELSE IF GetCallType(backup_result) # NULL
         THEN Verdict(backup_result.call_type, "medium", FALSE)
         ELSE LowVerdict

\* Mutant of rule 2: agreement of primary and backup is reported as high confidence.
NegativeCheckRule_agreeHigh(primary_result, backup_result) ==
    IF ~IsDict(backup_result) THEN Raised("AttributeError")
    ELSE IF GetCallType(backup_result) = NULL THEN LowVerdict
    ELSE IF GetCallType(backup_result) = GetCallType(primary_result)
         THEN Verdict(GetCallType(primary_result), "high", FALSE)
         ELSE LowVerdict

\* Mutant of rule 2: only a disagreeing backup label rejects the primary label,
\* a null backup label keeps it.
NegativeCheckRule_nullBackupKeeps(primary_result, backup_result) ==
    IF ~IsDict(backup_result) THEN Raised("AttributeError")
    ELSE IF GetCallType(backup_result) = NULL
            \/ GetCallType(backup_result) = GetCallType(primary_result)
         THEN Verdict(GetCallType(primary_result), "medium", FALSE)
         ELSE LowVerdict

\* Mutant of rule 2: a backup label that disagrees replaces the primary label.
NegativeCheckRule_prefersBackup(primary_result, backup_result) ==
    IF ~IsDict(backup_result) THEN Raised("AttributeError")
    ELSE IF GetCallType(backup_result) = NULL THEN LowVerdict
    ELSE Verdict(GetCallType(backup_result), "medium", FALSE)

\* Rule 2 body, entered when negative_check == 'no' and primary has a label.
NegativeCheckRule(primary_result, backup_result) ==
    IF ~IsDict(backup_result) THEN Raised("AttributeError")
    ELSE IF GetCallType(backup_result) = NULL THEN LowVerdict
    ELSE IF GetCallType(backup_result) = GetCallType(primary_result)
         THEN Verdict(GetCallType(primary_result), "medium", FALSE)
         ELSE LowVerdict

\* Mutant of rule 3: agreement is reported as medium confidence.
AgreementVerdict_medium(primary_result) ==
    Verdict(GetCallType(primary_result), "medium", FALSE)

\* Rule 3 return, taken when primary and backup agree on a label.
AgreementVerdict(primary_result) ==
    Verdict(GetCallType(primary_result), "high", FALSE)

\* Mutant of rule 4: an unconfirmed primary label is reported as low confidence.
DefaultRule_low(primary_result) ==
    IF GetCallType(primary_result) # NULL
    THEN Verdict(GetCallType(primary_result), "low", FALSE)
    ELSE LowVerdict

\* Rule 4, the default: the primary label with medium confidence.
DefaultRule(primary_result) ==
    IF GetCallType(primary_result) # NULL
    THEN Verdict(GetCallType(primary_result), "medium", FALSE)
    ELSE LowVerdict

\* Mutant of the condition of rule 2: every flag other than 'yes' contradicts.
NegativeContradicts_notYes(negative_check, primary_result) ==
    negative_check # "yes" /\ GetCallType(primary_result) # NULL

\* Condition of rule 2; primary_result.get is reached only when the flag is 'no'.
NegativeContradicts(negative_check, primary_result) ==
    negative_check = "no" /\ GetCallType(primary_result) # NULL

\* Rules 2 to 4, reached when validation_result is true.
ValidPrimaryRules(primary_result, backup_result, negative_check) ==
    IF negative_check = "no" /\ ~IsDict(primary_result) THEN Raised("AttributeError")
    ELSE IF NegativeContradicts(negative_check, primary_result)
         THEN NegativeCheckRule(primary_result, backup_result)
    ELSE IF ~IsDict(primary_result) \/ ~IsDict(backup_result) THEN Raised("AttributeError")
    ELSE IF GetCallType(primary_result) = GetCallType(backup_result)
            /\ GetCallType(primary_result) # NULL
         THEN AgreementVerdict(primary_result)
         ELSE DefaultRule(primary_result)

\* Mutant of the combiner: the rules for a valid primary opinion are tried first,
\* the validity flag is read only when the primary opinion carries no label.
StrategyCombiner_validityLast(inputs) ==
    LET primary_result == IF inputs.primary = AbsentOpinion
                          THEN MapOpinion(NULL) ELSE inputs.primary
        backup_result == IF inputs.backup = AbsentOpinion
                         THEN MapOpinion(NULL) ELSE inputs.backup
        negative_check == IF inputs.negative = "absent" THEN "yes" ELSE inputs.negative
    IN IF IsDict(primary_result) /\ GetCallType(primary_result) # NULL
       THEN ValidPrimaryRules(primary_result, backup_result, negative_check)
       ELSE IF ~inputs.validation_result
            THEN InvalidPrimaryRule(backup_result)
            ELSE ValidPrimaryRules(primary_result, backup_result, negative_check)

\* inputs: [primary, backup: opinion or absent, negative: flag or "absent",
\*          validation_result: BOOLEAN]
StrategyCombiner_invoke(inputs) ==
    LET primary_result == IF inputs.primary = AbsentOpinion
                          THEN MapOpinion(NULL) ELSE inputs.primary
        backup_result == IF inputs.backup = AbsentOpinion
                         THEN MapOpinion(NULL) ELSE inputs.backup
        negative_check == IF inputs.negative = "absent" THEN "yes" ELSE inputs.negative
    IN IF ~inputs.validation_result
       THEN InvalidPrimaryRule(backup_result)
       ELSE ValidPrimaryRules(primary_result, backup_result, negative_check)

\* ------------------------------------------------------------------------
\* RobustCallClassifier (standalone script): validate_call_type, combine_results
\* ------------------------------------------------------------------------
\* The script's global category list; the model uses the same list for both variants.
CALL_TYPES == CategorySet

validate_call_type(parsed_output) ==
    IF ~IsDict(parsed_output) \/ ~parsed_output.has
    THEN FALSE
    ELSE parsed_output.call_type = NULL \/ parsed_output.call_type \in CALL_TYPES

\* x['call_type']: "ok", or the exception the subscript raises.
Subscript(o) ==
    IF ~IsDict(o) THEN "TypeError" ELSE IF ~o.has THEN "KeyError" ELSE "ok"

\* ------------------------------------------------------------------------
\* SchemaValidator.invoke, statement by statement, with what each can raise
\* ------------------------------------------------------------------------
\* The outcome of a validator call: the boolean returned, or the exception raised.
Returned(b) == [status |-> "ok", value |-> b]
RaisedIn(e) == [status |-> e, value |-> FALSE]
NotCalled == RaisedIn("pending")

\* A label that is no string: the JSON number 42.
NonStringLabel == "42"

\* What a caller can hand to the validator: every value json.loads can return,
\* a map whose label is no string, and a bare string.
ValidatorInputs == ParsedValues \cup {MapOpinion(NonStringLabel), NonMap("string")}

\* x in xs for a list xs: compares x with each element by ==, raises nothing.
InList(x, xs) == \E i \in 1..Len(xs) : xs[i] = x

\* 'call_type' in parsed_output: a key of a map, an element of a list, a substring
\* of a string; None is not iterable.
MemberTest(o) ==
    IF o.kind = "null" THEN RaisedIn("TypeError") ELSE Returned(o.has)

ShapeRejected_noTypeTest(parsed_output) ==
    IF MemberTest(parsed_output).status = "ok"
    THEN Returned(~MemberTest(parsed_output).value)
    ELSE MemberTest(parsed_output)

\* not isinstance(parsed_output, dict) or 'call_type' not in parsed_output
ShapeRejected(parsed_output) ==
    IF ~IsDict(parsed_output)
    THEN Returned(TRUE)
    ELSE IF MemberTest(parsed_output).status = "ok"
         THEN Returned(~MemberTest(parsed_output).value)
         ELSE MemberTest(parsed_output)

LabelAccepted_noNull(call_type) == InList(call_type, Categories)

\* call_type is None or call_type in self.categories
LabelAccepted(call_type) == call_type = NULL \/ InList(call_type, Categories)

SchemaValidator_call(parsed_output) ==
    LET rejected == ShapeRejected(parsed_output)
    IN IF rejected.status # "ok" THEN rejected
       ELSE IF rejected.value THEN Returned(FALSE)
       ELSE IF Subscript(parsed_output) # "ok" THEN RaisedIn(Subscript(parsed_output))
       ELSE Returned(LabelAccepted(parsed_output.call_type))

\* "return backup_result": the backup dict itself, which has no confidence key.
BackupAsVerdict(backup_result) ==
    [status |-> "ok", call_type |-> backup_result.call_type,
     has_confidence |-> FALSE, confidence |-> "unknown",
     has_needs_human |-> FALSE, needs_human |-> FALSE,
     has_debug |-> FALSE]

combine_results(primary_result, backup_result, negative_check, validation_result) ==
    IF ~validation_result
    THEN IF validate_call_type(backup_result)
         THEN BackupAsVerdict(backup_result)
         ELSE LowVerdict
    ELSE IF negative_check = "no" /\ Subscript(primary_result) # "ok"
         THEN Raised(Subscript(primary_result))
    ELSE IF negative_check = "no" /\ primary_result.call_type # NULL
         THEN IF Subscript(backup_result) # "ok" THEN Raised(Subscript(backup_result))
              ELSE IF backup_result.call_type = NULL THEN LowVerdict
              ELSE IF backup_result.call_type = primary_result.call_type
                   THEN Verdict(primary_result.call_type, "medium", FALSE)
                   ELSE LowVerdict
    ELSE IF Subscript(primary_result) # "ok" THEN Raised(Subscript(primary_result))
    ELSE IF Subscript(backup_result) # "ok" THEN Raised(Subscript(backup_result))
    ELSE IF primary_result.call_type = backup_result.call_type
            /\ primary_result.call_type # NULL
         THEN Verdict(primary_result.call_type, "high", FALSE)
    ELSE IF primary_result.call_type # NULL
         THEN Verdict(primary_result.call_type, "medium", FALSE)
         ELSE LowVerdict

\* ------------------------------------------------------------------------
\* The collaborator's raw responses and the strategy parsers
\* ------------------------------------------------------------------------
\* A response text (response.content) is a sequence of tokens.
\* The text of a JSON string literal holding s.
Quoted(s) ==
    CASE s = "BILLING" -> "\"BILLING\""
      [] s = "CLAIMS" -> "\"CLAIMS\""
      [] OTHER -> "\"TECHNICAL\""

\* JSON object text {"call_type": lit}
ObjectText(lit) == <<"{", "\"call_type\"", ":", lit, "}">>

\* The texts the collaborator returns to the primary and backup prompts.
ParserResponses ==
    {ObjectText(Quoted(l)) : l \in CategorySet \cup {OutOfSet}}
    \cup {ObjectText("null"), <<"{", "}">>, <<"[", "]">>, <<"null">>}
    \cup {<<" ", "{", "\"call_type\"", ":", "\"CLAIMS\"", "}", " ">>,
          <<"{", "\"call_type\"", ":", "\"CLAIMS\"">>,
          <<"CLAIMS", "or", "BILLING">>,
          <<"TECHNICAL">>,
          <<"unclear">>}

\* The texts the collaborator returns to the negative-check prompt.
NegativeResponses ==
    {<<"Yes">>, <<" ", "No", " ">>, <<"yes", "or", "no">>, <<"maybe">>, <<"I", "cannot", "tell">>}

IsSpace(t) == t = " "

\* str.strip(): drop the whitespace at both ends.
RECURSIVE LStrip(_)
LStrip(s) == IF s # <<>> /\ IsSpace(Head(s)) THEN LStrip(Tail(s)) ELSE s

RECURSIVE RStrip(_)
RStrip(s) ==
    IF s # <<>> /\ IsSpace(s[Len(s)]) THEN RStrip(SubSeq(s, 1, Len(s) - 1)) ELSE s

Strip(s) == RStrip(LStrip(s))

\* The value of a JSON literal token used as call_type, if it is one.
IsLiteral(t) == t = "null" \/ \E l \in CategorySet \cup {OutOfSet} : t = Quoted(l)
LiteralValue(t) ==
    IF t = "null" THEN NULL ELSE CHOOSE l \in CategorySet \cup {OutOfSet} : t = Quoted(l)

\* json.loads(text): [ok |-> TRUE, value |-> parsed value], ok FALSE for JSONDecodeError.
JsonLoads(text) ==
    IF text = <<"null">> THEN [ok |-> TRUE, value |-> NonMap("null")]
    ELSE IF text = <<"[", "]">> THEN [ok |-> TRUE, value |-> NonMap("list")]
    ELSE IF text = <<"{", "}">> THEN [ok |-> TRUE, value |-> EmptyMap]
    ELSE IF Len(text) = 5 /\ IsLiteral(text[4]) /\ text = ObjectText(text[4])
         THEN [ok |-> TRUE, value |-> MapOpinion(LiteralValue(text[4]))]
    ELSE [ok |-> FALSE, value |-> NonMap("null")]

\* "call_type in response.content": the category is a substring of the text.
Contains(text, category) ==
    \E i \in 1..Len(text) : text[i] = category \/ text[i] = Quoted(category)

FirstCategoryIn_textOrder(text, i) ==
    LET hits == {k \in 1..Len(text) : \E c \in CategorySet : Contains(<<text[k]>>, c)}
        first == CHOOSE k \in hits : \A j \in hits : k <= j
    IN IF hits = {} THEN MapOpinion(NULL)
       ELSE MapOpinion(CHOOSE c \in CategorySet : Contains(<<text[first]>>, c))

\* "for call_type in self.categories: if call_type in response.content: return"
RECURSIVE FirstCategoryIn(_, _)
FirstCategoryIn(text, i) ==
    IF i > Len(Categories) THEN MapOpinion(NULL)
    ELSE IF Contains(text, Categories[i]) THEN MapOpinion(Categories[i])
    ELSE FirstCategoryIn(text, i + 1)

\* PrimaryParser.invoke after the collaborator returned the text.
PrimaryParser_invoke(text) ==
    IF JsonLoads(Strip(text)).ok
    THEN JsonLoads(Strip(text)).value
    ELSE FirstCategoryIn(text, 1)

\* BackupParser.invoke after the collaborator returned the text.
BackupParser_invoke(text) ==
    IF JsonLoads(Strip(text)).ok
    THEN JsonLoads(Strip(text)).value
    ELSE FirstCategoryIn(text, 1)

\* str.lower() of one token.
Lower(t) ==
    CASE t = "Yes" -> "yes"
      [] t = "No" -> "no"
      [] OTHER -> t

\* '"yes" in answer' and '"no" in answer' ("cannot" has the substring "no").
HasYes(text) == \E i \in 1..Len(text) : Lower(text[i]) = "yes"
HasNo(text) == \E i \in 1..Len(text) : Lower(text[i]) \in {"no", "cannot"}

NegativeChecker_invoke_noFirst(text) ==
    LET answer == Strip(text)
    IN IF HasNo(answer) THEN "no"
       ELSE IF HasYes(answer) THEN "yes"
       ELSE "yes"

\* NegativeChecker.invoke after the collaborator returned the text.
NegativeChecker_invoke(text) ==
    LET answer == Strip(text)
    IN IF HasYes(answer) THEN "yes"
       ELSE IF HasNo(answer) THEN "no"
       ELSE "yes"

\* ------------------------------------------------------------------------
\* EvaluationMetrics.invoke
\* ------------------------------------------------------------------------
\* A quotient n / d kept exact as a pair; the code's "if d > 0 else 0" guard.
Frac(n, d) == [num |-> n, den |-> d]
Zero == Frac(0, 1)
Quotient_unguarded(n, d) == Frac(n, d)

\* "n / d if d > 0 else 0"; a fraction with denominator 0 would be a ZeroDivisionError.
Quotient(n, d) == IF d > 0 THEN Frac(n, d) ELSE Zero
FracAdd(a, b) == Frac(a.num * b.den + b.num * a.den, a.den * b.den)
FracMul(a, b) == Frac(a.num * b.num, a.den * b.den)
FracDiv(a, b) == Frac(a.num * b.den, a.den * b.num)
FracPositive(a) == a.num > 0

\* sum(1 for i in range(total) if ...) over the positions S that pass the test
Count(S) == Cardinality(S)

\* The four buckets of confidence_metrics.
ConfidenceBuckets == {"high", "medium", "low", "unknown"}

CategoryMetrics_nullNotMissed(calls_, results_, total, call_type) ==
    LET tp(i) == calls_[i].type = call_type /\ results_[i].call_type = call_type
        fn(i) == /\ calls_[i].type = call_type
                 /\ results_[i].call_type # call_type
                 /\ results_[i].call_type # NULL
        fp(i) == calls_[i].type # call_type /\ results_[i].call_type = call_type
        true_positives == Count({i \in 1..total : tp(i)})
        false_negatives == Count({i \in 1..total : fn(i)})
        false_positives == Count({i \in 1..total : fp(i)})
    IN [precision |-> Quotient(true_positives, true_positives + false_positives),
        recall |-> Quotient(true_positives, true_positives + false_negatives),
        f1 |-> Zero,
        count |-> true_positives + false_negatives]

\* The body of "for call_type in categories": one category against the rest.
CategoryMetrics(calls_, results_, total, call_type) ==
    LET tp(i) == calls_[i].type = call_type /\ results_[i].call_type = call_type
        fn(i) == calls_[i].type = call_type /\ results_[i].call_type # call_type
        fp(i) == calls_[i].type # call_type /\ results_[i].call_type = call_type
        true_positives == Count({i \in 1..total : tp(i)})
        false_negatives == Count({i \in 1..total : fn(i)})
        false_positives == Count({i \in 1..total : fp(i)})
        precision == Quotient(true_positives, true_positives + false_positives)
        recall == Quotient(true_positives, true_positives + false_negatives)
        f1 == IF FracPositive(FracAdd(precision, recall))
              THEN FracDiv(FracMul(Frac(2, 1), FracMul(precision, recall)),
                           FracAdd(precision, recall))
              ELSE Zero
    IN [precision |-> precision, recall |-> recall, f1 |-> f1,
        count |-> true_positives + false_negatives]

ConfidenceMetrics_correctOfAll(calls_, results_, total, confidence) ==
    LET in(i) == GetConfidence(results_[i]) = confidence
        ok(i) == calls_[i].type = results_[i].call_type
        count == Count({i \in 1..total : in(i)})
        correct == Count({i \in 1..total : ok(i)})
    IN [count |-> count, correct |-> correct, accuracy |-> Quotient(correct, count)]

\* One bucket of confidence_metrics after the loop over the records.
ConfidenceMetrics(calls_, results_, total, confidence) ==
    LET in(i) == GetConfidence(results_[i]) = confidence
        ok(i) == in(i) /\ calls_[i].type = results_[i].call_type
        count == Count({i \in 1..total : in(i)})
        correct == Count({i \in 1..total : ok(i)})
    IN [count |-> count, correct |-> correct, accuracy |-> Quotient(correct, count)]

NoMetrics ==
    [overall_accuracy |-> Zero, correct |-> 0, total |-> 0,
     category_metrics |-> [c \in CategorySet |-> [precision |-> Zero, recall |-> Zero,
                                                  f1 |-> Zero, count |-> 0]],
     confidence_metrics |-> [b \in ConfidenceBuckets |-> [count |-> 0, correct |-> 0,
                                                          accuracy |-> Zero]],
     human_review |-> [count |-> 0, percentage |-> Zero]]

\* [status |-> "ok", metrics |-> the report], or status "IndexError" when
\* results[i] is read for an i beyond the end of results.
EvaluationMetrics_invoke(calls_, results_) ==
    LET total == Len(calls_)
        match(i) == calls_[i].type = results_[i].call_type
        correct == Count({i \in 1..total : match(i)})
        needs_human_count == Count({j \in 1..Len(results_) : GetNeedsHuman(results_[j])})
    IN IF total > Len(results_)
       THEN [status |-> "IndexError", metrics |-> NoMetrics]
       ELSE [status |-> "ok",
             metrics |->
               [overall_accuracy |-> Quotient(correct, total),
                correct |-> correct,
                total |-> total,
                category_metrics |->
                    [c \in CategorySet |-> CategoryMetrics(calls_, results_, total, c)],
                confidence_metrics |->
                    [b \in ConfidenceBuckets |-> ConfidenceMetrics(calls_, results_, total, b)],
                human_review |-> [count |-> needs_human_count,
                                  percentage |-> Quotient(needs_human_count, total)]]]

\* ------------------------------------------------------------------------
\* RobustEvaluator.__init__ and RobustEvaluator.from_config
\* ------------------------------------------------------------------------
\* An evaluator object: the attributes __init__ sets.
Evaluator(cats, m, ps, sv, cb) ==
    [status |-> "ok", categories |-> cats, model |-> m, parsers |-> ps,
     schema_validator |-> sv, combiner |-> cb]

\* The constructor raised e: there is no object.
NoEvaluator(e) ==
    [status |-> e, categories |-> <<>>, model |-> "none", parsers |-> "none",
     schema_validator |-> "none", combiner |-> "none"]

NotConstructed == NoEvaluator("pending")

\* RobustEvaluator(categories=Categories, model=<a model>) with default components.
DefaultEvaluator == Evaluator(Categories, "given", "default", "default", "default")

\* What a caller can pass: the categories argument (or config key) left out, None,
\* an empty list or a list; a model or None; ANTHROPIC_API_KEY unset, empty or
\* set; model_name left out or given; each component given or None.
ConstructInputs ==
    [via : {"__init__", "from_config"},
     categories : {"missing", "None", "empty", "list"},
     model : {"None", "given"},
     api_key : {"unset", "empty", "set"},
     model_name : {"absent", "given"},
     parsers : {"None", "given"},
     schema_validator : {"None", "given"},
     combiner : {"None", "given"}]

NoArgs ==
    [via |-> "none", categories |-> "missing", model |-> "None", api_key |-> "unset",
     model_name |-> "absent", parsers |-> "None", schema_validator |-> "None",
     combiner |-> "None"]

\* "not categories": None and the empty list are falsy.
Falsy(c) == c \in {"None", "empty"}

\* "component if given else the default one"
OrDefault(c) == IF c = "None" THEN "default" ELSE "given"

\* ChatAnthropic(model=model_name), model_name defaulting to the name in the signature
ChatAnthropic(model_name) ==
    IF model_name = "absent" THEN "ChatAnthropic:default" ELSE "ChatAnthropic:given"

RobustEvaluator_init_noKeyTest(args) ==
    IF args.categories = "missing" THEN NoEvaluator("TypeError")
    ELSE IF Falsy(args.categories) THEN NoEvaluator("ValueError")
    ELSE Evaluator(Categories,
                   IF args.model = "None" THEN ChatAnthropic(args.model_name) ELSE "given",
                   OrDefault(args.parsers), OrDefault(args.schema_validator),
                   OrDefault(args.combiner))

\* RobustEvaluator(categories, model, model_name, parsers, combiner, schema_validator):
\* a call without the required categories argument is a TypeError.
RobustEvaluator_init(args) ==
    IF args.categories = "missing" THEN NoEvaluator("TypeError")
    ELSE IF Falsy(args.categories) THEN NoEvaluator("ValueError")
    ELSE IF args.model = "None" /\ args.api_key \in {"unset", "empty"}
         THEN NoEvaluator("ValueError")
    ELSE Evaluator(Categories,
                   IF args.model = "None" THEN ChatAnthropic(args.model_name) ELSE "given",
                   OrDefault(args.parsers), OrDefault(args.schema_validator),
                   OrDefault(args.combiner))

\* RobustEvaluator.from_config(config): reads categories, model_name and
\* prompt_templates from the config, nothing else.
RobustEvaluator_from_config(args) ==
    IF args.categories = "missing" \/ Falsy(args.categories)
    THEN NoEvaluator("ValueError")
    ELSE RobustEvaluator_init([args EXCEPT !.model = "None", !.parsers = "None",
                                           !.schema_validator = "None",
                                           !.combiner = "None"])

\* ------------------------------------------------------------------------
\* State
\* ------------------------------------------------------------------------
VARIABLES
    cIn,                \* arguments of one direct call of the combiners
    cOut,               \* outcome of StrategyCombiner.invoke on cIn
    sOut,               \* outcome of RobustCallClassifier.combine_results on cIn
    calls,              \* batch_evaluate: the dataset, one [id, type] per call
    pc,                 \* batch_evaluate: the statement reached
    idx,                \* batch_evaluate: position of the call being processed
    parser_results,     \* invoke: the opinions gathered so far
    validation_result,  \* invoke: the validator's answer
    combined_result,    \* invoke: the combiner's outcome
    results,            \* batch_evaluate: the clean results appended so far
    report,             \* batch_evaluate: what it returns, or the exception leaving it
    failed,             \* history: positions of the calls whose processing raised
    model_calls,        \* history: collaborator calls made for the input being processed
    unit,               \* which component is called on its own: validator, parser, ...
    vIn,                \* argument of one direct call of SchemaValidator.invoke
    vOut,               \* its outcome
    uText,              \* the text the collaborator returns to a parser called on its own
    pOut,               \* what PrimaryParser.invoke returns on uText
    bOut,               \* what BackupParser.invoke returns on uText
    nOut,               \* what NegativeChecker.invoke returns on uText
    mCalls,             \* argument "calls" of one direct call of EvaluationMetrics.invoke
    mResults,           \* argument "results" of that call
    mOut,               \* its outcome
    kIn,                \* arguments of one construction of a RobustEvaluator
    evaluator,          \* the evaluator object, or the exception of its construction
    frame               \* the local variables of each concurrent call of invoke

vars == <<cIn, cOut, sOut, calls, pc, idx, parser_results, validation_result,
          combined_result, results, report, failed, model_calls,
          unit, vIn, vOut, uText, pOut, bOut, nOut, mCalls, mResults, mOut,
          kIn, evaluator, frame>>

combineVars == <<cIn, cOut, sOut>>
batchVars == <<calls, pc, idx, parser_results, validation_result, combined_result,
               results, report, failed, model_calls>>
unitVars == <<unit, vIn, vOut, uText, pOut, bOut, nOut, mCalls, mResults, mOut>>
objectVars == <<kIn, evaluator, frame>>

\* Every flag a negative-check parser can hand to the combiner.
NegativeFlags == {"yes", "no", "maybe"}

\* All argument combinations of a direct combiner call.
CombineInputs ==
    [primary : ParsedValues \cup {AbsentOpinion},
     backup : ParsedValues \cup {AbsentOpinion},
     negative : NegativeFlags \cup {"absent"},
     validation_result : BOOLEAN]

\* The arguments handed over positionally to combine_results (no key can be absent).
Positional(in) ==
    in.primary # AbsentOpinion /\ in.backup # AbsentOpinion /\ in.negative # "absent"

\* parser_results = {} at the start of invoke.
NoParserResults ==
    [primary |-> AbsentOpinion, backup |-> AbsentOpinion, negative |-> "absent"]

\* Callers that may be inside RobustEvaluator.invoke at the same time.
Procs == {1, 2}

\* The texts the collaborator has returned to one call of invoke.
NoResponses == [primary |-> <<>>, backup |-> <<>>, negative |-> <<>>]

\* The locals of a call of invoke that has not started: parser_results = {}.
IdleFrame ==
    [pc |-> "start", responses |-> NoResponses, parser_results |-> NoParserResults,
     validation_result |-> FALSE, combined_result |-> Pending]

\* The evaluator in use was built with the category list, a model and the
\* default components; nobody is inside invoke.
EvaluatorReady ==
    /\ kIn = NoArgs
    /\ evaluator = DefaultEvaluator
    /\ frame = [p \in Procs |-> IdleFrame]

NoReport == [status |-> "none", metrics |-> NoMetrics]

\* The datasets: up to MaxBatch calls, each with a ground-truth type.
RECURSIVE SeqsUpTo(_, _)
SeqsUpTo(S, n) ==
    IF n = 0 THEN {<<>>}
    ELSE SeqsUpTo(S, n - 1) \cup {Append(q, x) : q \in {r \in SeqsUpTo(S, n - 1) : Len(r) = n - 1}, x \in S}

Datasets ==
    {[i \in 1..Len(types) |-> [id |-> i, type |-> types[i]]] : types \in SeqsUpTo(CategorySet, MaxBatch)}

BatchIdle ==
    /\ pc = "idle"
    /\ idx = 0
    /\ parser_results = NoParserResults
    /\ validation_result = FALSE
    /\ combined_result = Pending
    /\ results = <<>>
    /\ report = NoReport
    /\ failed = {}
    /\ model_calls = 0

\* No component is being called on its own.
UnitsIdle ==
    /\ unit = "none"
    /\ vIn = AbsentOpinion
    /\ vOut = NotCalled
    /\ uText = <<>>
    /\ pOut = AbsentOpinion
    /\ bOut = AbsentOpinion
    /\ nOut = "absent"
    /\ mCalls = <<>>
    /\ mResults = <<>>
    /\ mOut = NoReport

CombineIdle ==
    /\ cIn = [primary |-> AbsentOpinion, backup |-> AbsentOpinion,
              negative |-> "absent", validation_result |-> FALSE]
    /\ cOut = Pending
    /\ sOut = Pending

\* ------------------------------------------------------------------------
\* Direct calls of the two combiners, over all arguments
\* ------------------------------------------------------------------------
InitCombine ==
    /\ cIn \in CombineInputs
    /\ cOut = Pending
    /\ sOut = Pending
    /\ calls = <<>>
    /\ BatchIdle
    /\ UnitsIdle
    /\ EvaluatorReady

\* A direct call of StrategyCombiner.invoke.
CallStrategyCombiner ==
    /\ cOut = Pending
    /\ cOut' = StrategyCombiner_invoke(cIn)
    /\ UNCHANGED <<cIn, sOut>>
    /\ UNCHANGED batchVars
    /\ UNCHANGED unitVars
    /\ UNCHANGED objectVars

\* A direct call of RobustCallClassifier.combine_results.
CallCombineResults ==
    /\ sOut = Pending
    /\ Positional(cIn)
    /\ sOut' = combine_results(cIn.primary, cIn.backup, cIn.negative, cIn.validation_result)
    /\ UNCHANGED <<cIn, cOut>>
    /\ UNCHANGED batchVars
    /\ UNCHANGED unitVars
    /\ UNCHANGED objectVars

NextCombine == CallStrategyCombiner \/ CallCombineResults

SpecCombine == InitCombine /\ [][NextCombine]_vars

\* ------------------------------------------------------------------------
\* One direct call of a single component: the validator, the two parsers on
\* one collaborator response, the negative checker, or the metrics
\* ------------------------------------------------------------------------
\* Longest sequence of records handed to the metrics.
MaxRecords == 3

Tiers == {"high", "medium", "low"}

\* One entry of "results" as the metrics read it: the label, the tier (possibly
\* missing), and the review flag the combiner sets with a null label.
ResultRecord(l, c) ==
    [call_type |-> l,
     has_confidence |-> (c # "absent"),
     confidence |-> IF c = "absent" THEN "unknown" ELSE c,
     has_needs_human |-> (l = NULL),
     needs_human |-> (l = NULL)]

ResultRecords == {ResultRecord(l, c) : l \in CategorySet \cup {NULL}, c \in Tiers \cup {"absent"}}

\* A record pairs the ground truth of calls[i] with results[i].
RecordSeqs ==
    UNION {[1..n -> [type : CategorySet, result : ResultRecords]] : n \in 0..MaxRecords}
CallsOf(rs) == [i \in 1..Len(rs) |-> [id |-> i, type |-> rs[i].type]]
ResultsOf(rs) == [i \in 1..Len(rs) |-> rs[i].result]

Units == {"validator", "parser", "negative", "metrics"}

InitUnits ==
    /\ CombineIdle
    /\ calls = <<>>
    /\ BatchIdle
    /\ EvaluatorReady
    /\ unit \in Units
    /\ vOut = NotCalled
    /\ pOut = AbsentOpinion
    /\ bOut = AbsentOpinion
    /\ nOut = "absent"
    /\ mOut = NoReport
    /\ IF unit = "validator" THEN vIn \in ValidatorInputs ELSE vIn = AbsentOpinion
    /\ IF unit = "parser" THEN uText \in ParserResponses
       ELSE IF unit = "negative" THEN uText \in NegativeResponses
       ELSE uText = <<>>
    /\ IF unit = "metrics"
       THEN \E rs \in RecordSeqs : mCalls = CallsOf(rs) /\ mResults = ResultsOf(rs)
       ELSE mCalls = <<>> /\ mResults = <<>>

\* SchemaValidator(categories).invoke(vIn)
CallValidator ==
    /\ unit = "validator"
    /\ vOut = NotCalled
    /\ vOut' = SchemaValidator_call(vIn)
    /\ UNCHANGED <<unit, vIn, uText, pOut, bOut, nOut, mCalls, mResults, mOut>>
    /\ UNCHANGED combineVars
    /\ UNCHANGED batchVars
    /\ UNCHANGED objectVars

\* PrimaryParser.invoke with a collaborator that answers uText
CallPrimaryParser ==
    /\ unit = "parser"
    /\ pOut = AbsentOpinion
    /\ pOut' = PrimaryParser_invoke(uText)
    /\ UNCHANGED <<unit, vIn, vOut, uText, bOut, nOut, mCalls, mResults, mOut>>
    /\ UNCHANGED combineVars
    /\ UNCHANGED batchVars
    /\ UNCHANGED objectVars

\* BackupParser.invoke with a collaborator that answers uText
CallBackupParser ==
    /\ unit = "parser"
    /\ bOut = AbsentOpinion
    /\ bOut' = BackupParser_invoke(uText)
    /\ UNCHANGED <<unit, vIn, vOut, uText, pOut, nOut, mCalls, mResults, mOut>>
    /\ UNCHANGED combineVars
    /\ UNCHANGED batchVars
    /\ UNCHANGED objectVars

\* NegativeChecker.invoke with a collaborator that answers uText
CallNegativeChecker ==
    /\ unit = "negative"
    /\ nOut = "absent"
    /\ nOut' = NegativeChecker_invoke(uText)
    /\ UNCHANGED <<unit, vIn, vOut, uText, pOut, bOut, mCalls, mResults, mOut>>
    /\ UNCHANGED combineVars
    /\ UNCHANGED batchVars
    /\ UNCHANGED objectVars

\* EvaluationMetrics().invoke({"calls": mCalls, "results": mResults, ...})
CallMetrics ==
    /\ unit = "metrics"
    /\ mOut = NoReport
    /\ mOut' = EvaluationMetrics_invoke(mCalls, mResults)
    /\ UNCHANGED <<unit, vIn, vOut, uText, pOut, bOut, nOut, mCalls, mResults>>
    /\ UNCHANGED combineVars
    /\ UNCHANGED batchVars
    /\ UNCHANGED objectVars

NextUnits ==
    \/ CallValidator
    \/ CallPrimaryParser
    \/ CallBackupParser
    \/ CallNegativeChecker
    \/ CallMetrics

SpecUnits == InitUnits /\ [][NextUnits]_vars

\* ------------------------------------------------------------------------
\* One construction of an evaluator
\* ------------------------------------------------------------------------
InitConstruct ==
    /\ CombineIdle
    /\ calls = <<>>
    /\ BatchIdle
    /\ UnitsIdle
    /\ kIn \in ConstructInputs
    /\ evaluator = NotConstructed
    /\ frame = [p \in Procs |-> IdleFrame]

\* RobustEvaluator(categories=..., model=..., ...)
ConstructDirect ==
    /\ kIn.via = "__init__"
    /\ evaluator = NotConstructed
    /\ evaluator' = RobustEvaluator_init(kIn)
    /\ UNCHANGED <<kIn, frame>>
    /\ UNCHANGED combineVars
    /\ UNCHANGED batchVars
    /\ UNCHANGED unitVars

\* RobustEvaluator.from_config({...})
ConstructFromConfig ==
    /\ kIn.via = "from_config"
    /\ evaluator = NotConstructed
    /\ evaluator' = RobustEvaluator_from_config(kIn)
    /\ UNCHANGED <<kIn, frame>>
    /\ UNCHANGED combineVars
    /\ UNCHANGED batchVars
    /\ UNCHANGED unitVars

NextConstruct == ConstructDirect \/ ConstructFromConfig

SpecConstruct == InitConstruct /\ [][NextConstruct]_vars

\* ------------------------------------------------------------------------
\* Concurrent calls of RobustEvaluator.invoke on one evaluator
\* ------------------------------------------------------------------------
\* Responses of the collaborator to the parsers and to the negative checker.
InvokeTexts ==
    {ObjectText(Quoted("BILLING")), ObjectText(Quoted("CLAIMS")), ObjectText("null"),
     <<"[", "]">>, <<"CLAIMS", "or", "BILLING">>}
InvokeAnswers == {<<"Yes">>, <<" ", "No", " ">>, <<"maybe">>}

InitInterleave ==
    /\ CombineIdle
    /\ calls = <<>>
    /\ BatchIdle
    /\ UnitsIdle
    /\ EvaluatorReady

\* Caller p's frame becomes f; the other frames and the evaluator stay.
SetFrame(p, f) ==
    /\ frame' = [frame EXCEPT ![p] = f]
    /\ UNCHANGED <<kIn, evaluator>>
    /\ UNCHANGED combineVars
    /\ UNCHANGED batchVars
    /\ UNCHANGED unitVars

\* The call of p leaves invoke with the exception of a collaborator call.
Propagate(p) == SetFrame(p, [frame[p] EXCEPT !.pc = "raised"])

\* parser_results["primary"] = PrimaryParser.invoke(input_text)
PrimaryStep(p) ==
    /\ frame[p].pc = "start"
    /\ \/ \E text \in InvokeTexts :
            SetFrame(p, [frame[p] EXCEPT !.pc = "backup",
                                         !.responses.primary = text,
                                         !.parser_results.primary = PrimaryParser_invoke(text)])
       \/ Propagate(p)

BackupStep_sharedAttribute(p) ==
    /\ frame[p].pc = "backup"
    /\ \/ \E text \in InvokeTexts :
            /\ frame' = [q \in Procs |->
                           IF q = p
                           THEN [frame[p] EXCEPT !.pc = "negative",
                                                 !.responses.backup = text,
                                                 !.parser_results.backup = BackupParser_invoke(text)]
                           ELSE [frame[q] EXCEPT !.parser_results.backup = BackupParser_invoke(text)]]
            /\ UNCHANGED <<kIn, evaluator>>
            /\ UNCHANGED combineVars
            /\ UNCHANGED batchVars
            /\ UNCHANGED unitVars
       \/ Propagate(p)

\* parser_results["backup"] = BackupParser.invoke(input_text)
BackupStep(p) ==
    /\ frame[p].pc = "backup"
    /\ \/ \E text \in InvokeTexts :
            SetFrame(p, [frame[p] EXCEPT !.pc = "negative",
                                         !.responses.backup = text,
                                         !.parser_results.backup = BackupParser_invoke(text)])
       \/ Propagate(p)

\* parser_results["negative"] = NegativeChecker.invoke(input_text)
NegativeStep(p) ==
    /\ frame[p].pc = "negative"
    /\ \/ \E text \in InvokeAnswers :
            SetFrame(p, [frame[p] EXCEPT !.pc = "validate",
                                         !.responses.negative = text,
                                         !.parser_results.negative = NegativeChecker_invoke(text)])
       \/ Propagate(p)

\* validation_result = self.schema_validator.invoke(parser_results.get("primary", {}))
ValidateStep(p) ==
    /\ frame[p].pc = "validate"
    /\ SetFrame(p, [frame[p] EXCEPT !.pc = "combine",
                                    !.validation_result =
                                        SchemaValidator_invoke(frame[p].parser_results.primary)])

\* combined_result = self.combiner.invoke({...})
CombineStep(p) ==
    /\ frame[p].pc = "combine"
    /\ LET verdict == StrategyCombiner_invoke(
                          [primary |-> frame[p].parser_results.primary,
                           backup |-> frame[p].parser_results.backup,
                           negative |-> frame[p].parser_results.negative,
                           validation_result |-> frame[p].validation_result])
       IN SetFrame(p, [frame[p] EXCEPT !.pc = IF verdict.status = "ok" THEN "debug" ELSE "raised",
                                       !.combined_result = verdict])

\* combined_result["_debug"] = {...}; return combined_result
ReturnStep(p) ==
    /\ frame[p].pc = "debug"
    /\ SetFrame(p, [frame[p] EXCEPT !.pc = "returned", !.combined_result.has_debug = TRUE])

\* The caller takes the verdict or the exception; its next call of invoke
\* starts with fresh locals.
NextCall(p) ==
    /\ frame[p].pc \in {"returned", "raised"}
    /\ SetFrame(p, IdleFrame)

NextInterleave ==
    \E p \in Procs :
        \/ PrimaryStep(p)
        \/ BackupStep(p)
        \/ NegativeStep(p)
        \/ ValidateStep(p)
        \/ CombineStep(p)
        \/ ReturnStep(p)
        \/ NextCall(p)

SpecInterleave == InitInterleave /\ [][NextInterleave]_vars

\* ------------------------------------------------------------------------
\* RobustEvaluator.batch_evaluate, with RobustEvaluator.invoke step by step
\* ------------------------------------------------------------------------
Init ==
    /\ CombineIdle
    /\ calls \in Datasets
    /\ BatchIdle
    /\ UnitsIdle
    /\ EvaluatorReady

\* Where the loop "for call in calls" goes from position i.
LoopFrom(i, cs) == IF i <= Len(cs) THEN "primary" ELSE "metrics"

\* batch_evaluate(calls, limit=None): the loop starts on the whole dataset.
StartNoLimit ==
    /\ pc = "idle"
    /\ idx' = 1
    /\ pc' = LoopFrom(1, calls)
    /\ UNCHANGED <<calls, parser_results, validation_result, combined_result,
                   results, report, failed, model_calls>>
    /\ UNCHANGED combineVars
    /\ UNCHANGED unitVars
    /\ UNCHANGED objectVars

\* batch_evaluate(calls, limit): calls = calls[:limit].
StartLimit ==
    /\ pc = "idle"
    /\ \E limit \in 0..MaxBatch :
         LET cut == SubSeq(calls, 1, IF limit < Len(calls) THEN limit ELSE Len(calls))
         IN /\ calls' = cut
            /\ pc' = LoopFrom(1, cut)
    /\ idx' = 1
    /\ UNCHANGED <<parser_results, validation_result, combined_result,
                   results, report, failed, model_calls>>
    /\ UNCHANGED combineVars
    /\ UNCHANGED unitVars
    /\ UNCHANGED objectVars

RunPrimary_retriesOnFallback ==
    /\ pc = "primary"
    /\ \/ \E text \in ParserResponses :
            /\ parser_results' = [NoParserResults EXCEPT !.primary = PrimaryParser_invoke(text)]
            /\ model_calls' = IF JsonLoads(Strip(text)).ok THEN model_calls + 1
                                                          ELSE model_calls + 2
            /\ pc' = "backup"
       \/ /\ parser_results' = NoParserResults
          /\ model_calls' = model_calls + 1
          /\ pc' = "except"
    /\ validation_result' = FALSE
    /\ combined_result' = Pending
    /\ UNCHANGED <<calls, idx, results, report, failed>>
    /\ UNCHANGED combineVars
    /\ UNCHANGED unitVars
    /\ UNCHANGED objectVars

\* parser_results["primary"] = PrimaryParser.invoke(input_text); the collaborator
\* returns a text or raises.
RunPrimary ==
    /\ pc = "primary"
    /\ \/ \E text \in ParserResponses :
            /\ parser_results' = [NoParserResults EXCEPT !.primary = PrimaryParser_invoke(text)]
            /\ pc' = "backup"
       \/ /\ parser_results' = NoParserResults
          /\ pc' = "except"
    /\ validation_result' = FALSE
    /\ combined_result' = Pending
    /\ model_calls' = model_calls + 1
    /\ UNCHANGED <<calls, idx, results, report, failed>>
    /\ UNCHANGED combineVars
    /\ UNCHANGED unitVars
    /\ UNCHANGED objectVars

RunBackup_skipsNegative ==
    /\ pc = "backup"
    /\ \/ \E text \in ParserResponses :
            /\ parser_results' = [parser_results EXCEPT !.backup = BackupParser_invoke(text)]
            /\ pc' \in {"negative", "validate"}
       \/ /\ pc' = "except"
          /\ UNCHANGED parser_results
    /\ model_calls' = model_calls + 1
    /\ UNCHANGED <<calls, idx, validation_result, combined_result, results, report, failed>>
    /\ UNCHANGED combineVars
    /\ UNCHANGED unitVars
    /\ UNCHANGED objectVars

\* parser_results["backup"] = BackupParser.invoke(input_text)
RunBackup ==
    /\ pc = "backup"
    /\ \/ \E text \in ParserResponses :
            /\ parser_results' = [parser_results EXCEPT !.backup = BackupParser_invoke(text)]
            /\ pc' = "negative"
       \/ /\ pc' = "except"
          /\ UNCHANGED parser_results
    /\ model_calls' = model_calls + 1
    /\ UNCHANGED <<calls, idx, validation_result, combined_result, results, report, failed>>
    /\ UNCHANGED combineVars
    /\ UNCHANGED unitVars
    /\ UNCHANGED objectVars

\* parser_results["negative"] = NegativeChecker.invoke(input_text)
RunNegative ==
    /\ pc = "negative"
    /\ \/ \E text \in NegativeResponses :
            /\ parser_results' = [parser_results EXCEPT !.negative = NegativeChecker_invoke(text)]
            /\ pc' = "validate"
       \/ /\ pc' = "except"
          /\ UNCHANGED parser_results
    /\ model_calls' = model_calls + 1
    /\ UNCHANGED <<calls, idx, validation_result, combined_result, results, report, failed>>
    /\ UNCHANGED combineVars
    /\ UNCHANGED unitVars
    /\ UNCHANGED objectVars

\* validation_result = self.schema_validator.invoke(parser_results.get("primary", {}))
Validate ==
    /\ pc = "validate"
    /\ validation_result' =
         SchemaValidator_invoke(IF parser_results.primary = AbsentOpinion
                                THEN EmptyMap ELSE parser_results.primary)
    /\ pc' = "combine"
    /\ UNCHANGED <<calls, idx, parser_results, combined_result, results, report, failed,
                   model_calls>>
    /\ UNCHANGED combineVars
    /\ UNCHANGED unitVars
    /\ UNCHANGED objectVars

\* combined_result = self.combiner.invoke({...})
Combine ==
    /\ pc = "combine"
    /\ combined_result' =
         StrategyCombiner_invoke([primary |-> parser_results.primary,
                                  backup |-> parser_results.backup,
                                  negative |-> parser_results.negative,
                                  validation_result |-> validation_result])
    /\ pc' = IF combined_result'.status = "ok" THEN "debug" ELSE "except"
    /\ UNCHANGED <<calls, idx, parser_results, validation_result, results, report, failed,
                   model_calls>>
    /\ UNCHANGED combineVars
    /\ UNCHANGED unitVars
    /\ UNCHANGED objectVars

\* combined_result["_debug"] = {...}; return combined_result
AttachDebug ==
    /\ pc = "debug"
    /\ combined_result' = [combined_result EXCEPT !.has_debug = TRUE]
    /\ pc' = "clean"
    /\ UNCHANGED <<calls, idx, parser_results, validation_result, results, report, failed,
                   model_calls>>
    /\ UNCHANGED combineVars
    /\ UNCHANGED unitVars
    /\ UNCHANGED objectVars

\* The clean copy of the result that batch_evaluate appends (customer_input,
\* a text the control flow never reads, is left out).
CleanResult(call, result, pr, valid) ==
    [id |-> call.id,
     actual_type |-> call.type,
     call_type |-> result.call_type,
     has_confidence |-> TRUE,
     confidence |-> GetConfidence(result),
     has_needs_human |-> TRUE,
     needs_human |-> GetNeedsHuman(result),
     correct |-> (call.type = result.call_type),
     debug |-> [primary_result |-> GetCallType(pr.primary),
                backup_result |-> GetCallType(pr.backup),
                negative_check |-> pr.negative,
                validation_result |-> valid]]

\* clean_result = {...}; clean_result["debug"] = {...}; results.append(clean_result).
\* .get("call_type") on an opinion that is no dict raises inside the try block.
AppendClean ==
    /\ pc = "clean"
    /\ IF IsDict(parser_results.primary) /\ IsDict(parser_results.backup)
       THEN /\ results' = Append(results, CleanResult(calls[idx], combined_result,
                                                      parser_results, validation_result))
            /\ idx' = idx + 1
            /\ pc' = LoopFrom(idx + 1, calls)
            /\ model_calls' = 0
       ELSE /\ pc' = "except"
            /\ UNCHANGED <<results, idx, model_calls>>
    /\ UNCHANGED <<calls, parser_results, validation_result, combined_result, report, failed>>
    /\ UNCHANGED combineVars
    /\ UNCHANGED unitVars
    /\ UNCHANGED objectVars

HandleError_abortsBatch ==
    /\ pc = "except"
    /\ failed' = failed \cup {idx}
    /\ model_calls' = 0
    /\ idx' = idx + 1
    /\ pc' = "metrics"
    /\ UNCHANGED <<calls, parser_results, validation_result, combined_result, results, report>>
    /\ UNCHANGED combineVars
    /\ UNCHANGED unitVars
    /\ UNCHANGED objectVars

\* except Exception as e: print(...); the loop continues with the next call.
HandleError ==
    /\ pc = "except"
    /\ failed' = failed \cup {idx}
    /\ model_calls' = 0
    /\ idx' = idx + 1
    /\ pc' = LoopFrom(idx + 1, calls)
    /\ UNCHANGED <<calls, parser_results, validation_result, combined_result, results, report>>
    /\ UNCHANGED combineVars
    /\ UNCHANGED unitVars
    /\ UNCHANGED objectVars

\* metrics = EvaluationMetrics().invoke({calls, results, categories}); return {...}
ComputeMetrics ==
    /\ pc = "metrics"
    /\ report' = EvaluationMetrics_invoke(calls, results)
    /\ pc' = IF report'.status = "ok" THEN "done" ELSE "raised"
    /\ UNCHANGED <<calls, idx, parser_results, validation_result, combined_result,
                   results, failed, model_calls>>
    /\ UNCHANGED combineVars
    /\ UNCHANGED unitVars
    /\ UNCHANGED objectVars

Next ==
    \/ StartNoLimit
    \/ StartLimit
    \/ RunPrimary
    \/ RunBackup
    \/ RunNegative
    \/ Validate
    \/ Combine
    \/ AttachDebug
    \/ AppendClean
    \/ HandleError
    \/ ComputeMetrics

Spec == Init /\ [][Next]_vars

\* The statements of batch_evaluate and invoke that run on their own always
\* complete. A call of the collaborator (RunPrimary, RunBackup, RunNegative) is
\* a blocking self.model.invoke(prompt) with nothing around it that would end
\* the wait, so nothing makes it return: those steps get no fairness.
Fairness ==
    /\ WF_vars(Validate)
    /\ WF_vars(Combine)
    /\ WF_vars(AttachDebug)
    /\ WF_vars(AppendClean)
    /\ WF_vars(HandleError)
    /\ WF_vars(ComputeMetrics)

SpecLive == Init /\ [][Next]_vars /\ Fairness

\* ------------------------------------------------------------------------
\* Properties
\* ------------------------------------------------------------------------
\* The outcome o is the verdict {call_type: l, confidence: c, needs_human: nh},
\* an absent key read with its default.
VerdictIs(o, l, c, nh) ==
    /\ o.status = "ok"
    /\ o.call_type = l
    /\ GetConfidence(o) = c
    /\ GetNeedsHuman(o) = nh

\* An opinion that carries a label or null: a dict, or a key absent from parser_results.
HasLabelField(o) == IsDict(o) \/ o = AbsentOpinion
LabelOf(o) == IF o = AbsentOpinion THEN NULL ELSE GetCallType(o)

\* The combiner has been called on cIn and both opinions read by the rules are dicts.
Combined == cOut # Pending
BothLabelled == HasLabelField(cIn.primary) /\ HasLabelField(cIn.backup)
NotClassifiable == cIn.negative = "no"

\* C1: every verdict returned by StrategyCombiner.invoke has needs_human true
\* (absent read as false) if and only if its call_type is null.
C1_NeedsHumanIffNullLabel ==
    cOut.status = "ok" => (GetNeedsHuman(cOut) <=> cOut.call_type = NULL)

\* C1 witness: rule 1 has returned the backup label in a dict without the needs_human key.
C1_Witness ==
    /\ cOut.status = "ok"
    /\ ~cIn.validation_result
    /\ cOut.call_type # NULL
    /\ ~cOut.has_needs_human

\* C2: the label of the verdict RobustEvaluator.invoke builds is null or a member
\* of the category set, whatever the collaborator returned.
C2_LabelInCategorySet ==
    combined_result.status = "ok" => combined_result.call_type \in CategorySet \cup {NULL}

\* C3: a batch run never ends by raising: it always returns a report.
C3_BatchAlwaysReports ==
    pc # "raised" /\ (pc = "done" => report.status = "ok")

\* C4: after a batch run with failed calls, results holds exactly the calls that did
\* not fail and the metrics count those calls only.
C4_MetricsCountNonFailed ==
    (pc \in {"done", "raised"} /\ failed # {}) =>
        /\ Len(results) = Len(calls) - Cardinality(failed)
        /\ \A j \in 1..Len(results) : results[j].id \notin failed
        /\ report.status = "ok"
        /\ report.metrics.total = Len(results)

\* C5: StrategyCombiner.invoke never raises on the opinions the parsers return.
C5_CombinerNeverRaises ==
    combined_result.status \in {"pending", "ok"}

\* C6: with validation_result false the verdict is {backup label, medium, no human}
\* for a non-null backup label and {null, low, human} otherwise, whatever the primary
\* opinion and the negative check are.
C6_InvalidPrimaryUsesBackup ==
    (Combined /\ ~cIn.validation_result /\ HasLabelField(cIn.backup)) =>
        IF LabelOf(cIn.backup) # NULL
        THEN VerdictIs(cOut, LabelOf(cIn.backup), "medium", FALSE)
        ELSE VerdictIs(cOut, NULL, "low", TRUE)

\* C6 witness: validation failed while primary and backup agree on a label and the
\* negative check says no; the backup label came back as medium.
C6_Witness ==
    /\ Combined
    /\ ~cIn.validation_result
    /\ NotClassifiable
    /\ IsDict(cIn.primary) /\ IsDict(cIn.backup)
    /\ LabelOf(cIn.primary) = OutOfSet
    /\ LabelOf(cIn.backup) = OutOfSet
    /\ VerdictIs(cOut, OutOfSet, "medium", FALSE)

\* The precondition of rule 2 on a valid primary opinion with a label.
Rule2Case ==
    /\ cIn.validation_result
    /\ NotClassifiable
    /\ BothLabelled
    /\ LabelOf(cIn.primary) # NULL

C8_UnconfirmedUnderNegativeIsRejected ==
    (Combined /\ Rule2Case /\ LabelOf(cIn.backup) # LabelOf(cIn.primary)) =>
        VerdictIs(cOut, NULL, "low", TRUE)

\* C8 witness: the backup label is null (scenario C) and the verdict was returned.
C8_Witness ==
    /\ Combined
    /\ Rule2Case
    /\ LabelOf(cIn.primary) = "BILLING"
    /\ LabelOf(cIn.backup) = NULL
    /\ cOut.status = "ok"

\* C9: valid primary, negative check classifiable, primary and backup agree on a
\* non-null label: the verdict is {that label, high, no human}.
C9_AgreementIsHigh ==
    (/\ Combined
     /\ cIn.validation_result
     /\ ~NotClassifiable
     /\ BothLabelled
     /\ LabelOf(cIn.primary) # NULL
     /\ LabelOf(cIn.primary) = LabelOf(cIn.backup)) =>
        VerdictIs(cOut, LabelOf(cIn.primary), "high", FALSE)

\* C9 witness: scenario A has been combined.
C9_Witness ==
    /\ Combined
    /\ cIn.validation_result
    /\ cIn.negative = "yes"
    /\ cIn.primary = MapOpinion("BILLING")
    /\ cIn.backup = MapOpinion("BILLING")
    /\ cOut.status = "ok"

\* Neither rule 2 nor rule 3 matches a valid primary opinion.
DefaultCase ==
    /\ cIn.validation_result
    /\ BothLabelled
    /\ ~(NotClassifiable /\ LabelOf(cIn.primary) # NULL)
    /\ ~(LabelOf(cIn.primary) = LabelOf(cIn.backup) /\ LabelOf(cIn.primary) # NULL)

\* C10: in the default case the verdict is {primary label, medium, no human} for a
\* non-null primary label and {null, low, human} for a null one, whatever the backup.
C10_DefaultRule ==
    (Combined /\ DefaultCase) =>
        IF LabelOf(cIn.primary) # NULL
        THEN VerdictIs(cOut, LabelOf(cIn.primary), "medium", FALSE)
        ELSE VerdictIs(cOut, NULL, "low", TRUE)

\* C10 witness: scenario B (the backup names another category) has been combined.
C10_Witness ==
    /\ Combined
    /\ DefaultCase
    /\ cIn.primary = MapOpinion("BILLING")
    /\ cIn.backup = MapOpinion("CLAIMS")
    /\ cOut.status = "ok"

\* ------------------------------------------------------------------------
\* Properties of the schema validator
\* ------------------------------------------------------------------------
\* The validator has been called on vIn and vOut is the outcome.
Validated == unit = "validator" /\ vOut # NotCalled

\* A key-value map that carries call_type, with a null or in-set label.
WellFormed(o) ==
    /\ o.kind = "map"
    /\ o.has
    /\ (o.call_type = NULL \/ o.call_type \in CategorySet)

\* C11: the validator returns true exactly when the opinion is a map that carries
\* call_type with a null or in-set label; false for a label string outside the
\* category set, true for a null label.
C11_ValidIffWellFormed ==
    Validated =>
        /\ (vOut = Returned(TRUE)) <=> WellFormed(vIn)
        /\ (vIn = MapOpinion(OutOfSet)) => (vOut = Returned(FALSE))
        /\ (vIn = MapOpinion(NULL)) => (vOut = Returned(TRUE))

\* C11 witness: a null label has been validated and accepted.
C11_Witness ==
    /\ Validated
    /\ vIn = MapOpinion(NULL)
    /\ vOut = Returned(TRUE)

\* Not a map, a map without call_type, or a label that is no string.
WrongShape(o) ==
    \/ o.kind # "map"
    \/ ~o.has
    \/ o.call_type = NonStringLabel

\* C12: the validator never raises, and answers false to every input of the wrong
\* shape or with a label of the wrong type.
C12_ValidatorNeverRaises ==
    Validated =>
        /\ vOut.status = "ok"
        /\ WrongShape(vIn) => (vOut = Returned(FALSE))

\* C12 witness: JSON null, which supports no membership test, was answered false.
C12_Witness ==
    /\ Validated
    /\ vIn = NonMap("null")
    /\ vOut = Returned(FALSE)

\* ------------------------------------------------------------------------
\* Properties of the processing of one input
\* ------------------------------------------------------------------------
\* All three strategies returned for the input being processed: none of the
\* collaborator calls failed.
AllStrategiesReturned == parser_results.negative # "absent"

\* C13: a malformed strategy output is no error; an input whose three strategies
\* all returned is never abandoned to the error handler, whatever they returned.
C13_MalformedOutputIsNoError ==
    (pc = "except") => ~AllStrategiesReturned

\* ------------------------------------------------------------------------
\* Properties of the metrics
\* ------------------------------------------------------------------------
\* The metrics have been computed over the records (mCalls[i], mResults[i]).
Measured == unit = "metrics" /\ mOut # NoReport

Positions == 1..Len(mCalls)
TruthIs(c) == {i \in Positions : mCalls[i].type = c}
PredictedAs(c) == {i \in Positions : mResults[i].call_type = c}
Matches == {i \in Positions : mCalls[i].type = mResults[i].call_type}
TierIs(b) ==
    {i \in Positions :
        IF b = "unknown"
        THEN ~mResults[i].has_confidence \/ mResults[i].confidence = "unknown"
        ELSE mResults[i].has_confidence /\ mResults[i].confidence = b}

\* Every quotient of the report was computed with a non-zero denominator.
NoDivisionByZero(m) ==
    /\ m.overall_accuracy.den > 0
    /\ m.human_review.percentage.den > 0
    /\ \A c \in CategorySet :
          /\ m.category_metrics[c].precision.den > 0
          /\ m.category_metrics[c].recall.den > 0
          /\ m.category_metrics[c].f1.den > 0
    /\ \A b \in ConfidenceBuckets : m.confidence_metrics[b].accuracy.den > 0

\* C14: the metrics are total over every sequence of records, the empty one
\* included: nothing raises, and each quotient whose denominator is zero (overall
\* accuracy, precision, recall, F1, a tier's accuracy, the review percentage) is 0.
C14_MetricsTotal ==
    Measured =>
        /\ mOut.status = "ok"
        /\ NoDivisionByZero(mOut.metrics)
        /\ (Positions = {}) =>
              /\ mOut.metrics.overall_accuracy = Zero
              /\ mOut.metrics.human_review.percentage = Zero
        /\ \A c \in CategorySet :
              /\ (PredictedAs(c) = {}) => mOut.metrics.category_metrics[c].precision = Zero
              /\ (TruthIs(c) = {}) => mOut.metrics.category_metrics[c].recall = Zero
              /\ (TruthIs(c) \cap PredictedAs(c) = {}) => mOut.metrics.category_metrics[c].f1 = Zero
        /\ \A b \in ConfidenceBuckets :
              (TierIs(b) = {}) => mOut.metrics.confidence_metrics[b].accuracy = Zero

\* C14 witness: the metrics of the empty sequence have been computed.
C14_Witness ==
    /\ Measured
    /\ Positions = {}
    /\ mOut.status = "ok"
    /\ mOut.metrics.overall_accuracy = Zero
    /\ \A c \in CategorySet : mOut.metrics.category_metrics[c].precision = Zero

\* The quotient n/d as the report states it, 0 when d is 0.
Ratio(n, d) == IF d = 0 THEN Zero ELSE Frac(n, d)

\* C15: for each category c on its own, TP are the records with truth c and label
\* c, FN those with truth c and another label (null included), FP those with
\* another truth and label c; precision is TP/(TP+FP), recall TP/(TP+FN), and
\* count is TP+FN, the number of records whose truth is c.
C15_OneVsRest ==
    Measured =>
        \A c \in CategorySet :
            LET TP == Cardinality(TruthIs(c) \cap PredictedAs(c))
                FN == Cardinality(TruthIs(c) \ PredictedAs(c))
                FP == Cardinality(PredictedAs(c) \ TruthIs(c))
                m == mOut.metrics.category_metrics[c]
            IN /\ m.precision = Ratio(TP, TP + FP)
               /\ m.recall = Ratio(TP, TP + FN)
               /\ m.count = TP + FN
               /\ m.count = Cardinality(TruthIs(c))

\* C15 witness: three BILLING records, two labelled BILLING and one CLAIMS, give
\* BILLING recall 2/3 and count 3.
C15_Witness ==
    /\ Measured
    /\ Cardinality(TruthIs("BILLING")) = 3
    /\ Cardinality(TruthIs("BILLING") \cap PredictedAs("BILLING")) = 2
    /\ Cardinality(TruthIs("BILLING") \cap PredictedAs("CLAIMS")) = 1
    /\ mOut.metrics.category_metrics["BILLING"].recall = Frac(2, 3)
    /\ mOut.metrics.category_metrics["BILLING"].count = 3

\* C16: every record is counted in exactly one confidence bucket, its tier or
\* "unknown" when it has none; a bucket's correct count and accuracy come from its
\* own records only, so the counts add up to the number of records and no correct
\* count exceeds its count.
C16_ConfidenceBuckets ==
    Measured =>
        LET cm == mOut.metrics.confidence_metrics
        IN /\ \A b \in ConfidenceBuckets :
                /\ cm[b].count = Cardinality(TierIs(b))
                /\ cm[b].correct = Cardinality(TierIs(b) \cap Matches)
                /\ cm[b].correct <= cm[b].count
                /\ cm[b].accuracy = Ratio(cm[b].correct, cm[b].count)
           /\ cm["high"].count + cm["medium"].count + cm["low"].count + cm["unknown"].count
                = Len(mCalls)

\* C16 witness: of two records, the one without a tier is in the unknown bucket
\* and the high one, a mismatch, in the high bucket.
C16_Witness ==
    /\ Measured
    /\ Len(mCalls) = 2
    /\ ~mResults[1].has_confidence
    /\ mResults[2].has_confidence /\ mResults[2].confidence = "high"
    /\ 1 \in Matches /\ 2 \notin Matches
    /\ mOut.metrics.confidence_metrics["unknown"].count = 1
    /\ mOut.metrics.confidence_metrics["unknown"].correct = 1
    /\ mOut.metrics.confidence_metrics["high"].count = 1
    /\ mOut.metrics.confidence_metrics["high"].correct = 0

\* ------------------------------------------------------------------------
\* Properties of the parsers
\* ------------------------------------------------------------------------
\* json.loads rejects the stripped response uText.
ParseFails == ~JsonLoads(Strip(uText)).ok

\* Positions in the category list of the categories that occur in uText.
Occurring == {i \in 1..Len(Categories) : Contains(uText, Categories[i])}

\* The first of them in list order, null when there is none.
FirstOccurring ==
    IF Occurring = {} THEN NULL
    ELSE Categories[CHOOSE i \in Occurring : \A j \in Occurring : i <= j]

\* C17: when the structured parse fails, both parsers return as label the first
\* category, in category-list order, that occurs in the raw response, and null
\* when none occurs; that label is null or a member of the category set.
C17_FallbackFirstCategory ==
    (unit = "parser" /\ ParseFails) =>
        /\ (pOut # AbsentOpinion) =>
              /\ pOut = MapOpinion(FirstOccurring)
              /\ pOut.call_type \in CategorySet \cup {NULL}
        /\ (bOut # AbsentOpinion) =>
              /\ bOut = MapOpinion(FirstOccurring)
              /\ bOut.call_type \in CategorySet \cup {NULL}

\* C17 witness: on the text "CLAIMS or BILLING" both parsers fell back and
\* returned BILLING, the first of the two in category order.
C17_Witness ==
    /\ unit = "parser"
    /\ ParseFails
    /\ uText = <<"CLAIMS", "or", "BILLING">>
    /\ pOut = MapOpinion("BILLING")
    /\ bOut = MapOpinion("BILLING")

\* The lower-cased response uText contains "yes", respectively "no".
SaysYes == \E i \in 1..Len(uText) : uText[i] \in {"yes", "Yes"}
SaysNo == \E i \in 1..Len(uText) : uText[i] \in {"no", "No", "cannot"}

\* C18: the negative check answers one of two values for every response: "yes"
\* when the lower-cased response contains "yes" (even next to a "no"), "no" when
\* it contains "no" and no "yes", and "yes" when it contains neither.
C18_NegativeCheckRule ==
    (unit = "negative" /\ nOut # "absent") =>
        /\ nOut \in {"yes", "no"}
        /\ SaysYes => nOut = "yes"
        /\ (SaysNo /\ ~SaysYes) => nOut = "no"
        /\ (~SaysNo /\ ~SaysYes) => nOut = "yes"

\* C18 witness: the response "yes or no" was answered "yes".
C18_Witness ==
    /\ unit = "negative"
    /\ uText = <<"yes", "or", "no">>
    /\ SaysYes /\ SaysNo
    /\ nOut = "yes"

\* ------------------------------------------------------------------------
\* Order of the steps of RobustEvaluator.invoke
\* ------------------------------------------------------------------------
\* The three strategy opinions of the input being processed are available.
OpinionsAvailable ==
    /\ parser_results.primary # AbsentOpinion
    /\ parser_results.backup # AbsentOpinion
    /\ parser_results.negative # "absent"

\* C19: validation starts only when the three opinions are available; the
\* combiner is reached only from the validation step, hence with the three
\* opinions and the validation result; it has no outcome for an input one of
\* whose strategy calls failed.
C19_StrictlyForward ==
    [][/\ (pc' \in {"validate", "combine"}) => OpinionsAvailable'
       /\ (pc' = "combine") =>
             /\ pc = "validate"
             /\ validation_result' = SchemaValidator_invoke(parser_results.primary)
       /\ (combined_result = Pending /\ combined_result' # Pending) =>
             /\ pc = "combine"
             /\ OpinionsAvailable
       /\ (pc' = "except" /\ ~AllStrategiesReturned') => combined_result' = Pending
      ]_vars

\* C19 witness: the combiner has returned a verdict for an input whose three
\* opinions and validation result were available.
C19_Witness ==
    /\ pc = "debug"
    /\ OpinionsAvailable
    /\ validation_result = SchemaValidator_invoke(parser_results.primary)
    /\ combined_result.status = "ok"

\* ------------------------------------------------------------------------
\* Calls of the text-generation collaborator
\* ------------------------------------------------------------------------
\* Strategy parsers that have run for the input being processed when one of them
\* failed: the one that failed, and those that returned before it.
ParsersRun ==
    1 + (IF parser_results.primary # AbsentOpinion THEN 1 ELSE 0)
      + (IF parser_results.backup # AbsentOpinion THEN 1 ELSE 0)

\* C20: every run of a strategy parser calls the collaborator exactly once,
\* whether it parses the response, falls back to the category search or fails;
\* one input takes at most three calls, and exactly three when no call fails.
C20_OneCallPerParser ==
    /\ model_calls <= 3
    /\ (pc = "primary") => model_calls = 0
    /\ (pc = "backup") => model_calls = 1
    /\ (pc = "negative") => model_calls = 2
    /\ (pc \in {"validate", "combine", "debug", "clean"}) => model_calls = 3
    /\ (pc = "except" /\ AllStrategiesReturned) => model_calls = 3
    /\ (pc = "except" /\ ~AllStrategiesReturned) => model_calls = ParsersRun

\* C20 witness: the three strategies have returned for an input, the primary
\* one with a null label, after three collaborator calls.
C20_Witness ==
    /\ pc = "validate"
    /\ OpinionsAvailable
    /\ parser_results.primary = MapOpinion(NULL)
    /\ model_calls = 3

\* ------------------------------------------------------------------------
\* Failures of the collaborator inside a batch
\* ------------------------------------------------------------------------
\* Positions of the calls that have an entry in results (a call's id is its position).
ResultIds == {results[k].id : k \in 1..Len(results)}

\* C21: a failed collaborator call leaves invoke without a verdict, is caught for
\* its item only, the item gets no entry in results, and the loop goes on: each
\* position before the current one either failed or has its entry, never both,
\* and when the loop ends every position of the batch has been handled.
C21_FailureIsPerItem ==
    /\ (pc = "except" /\ ~AllStrategiesReturned) =>
          /\ combined_result = Pending
          /\ idx \notin ResultIds
    /\ failed \cap ResultIds = {}
    /\ (pc # "idle") => (failed \cup ResultIds = 1..(idx - 1))
    /\ (pc \in {"metrics", "done", "raised"}) => (failed \cup ResultIds = 1..Len(calls))

\* C21 witness: the first item of a batch of two failed and has no entry, the
\* second one was classified afterwards.
C21_Witness ==
    /\ pc = "metrics"
    /\ Len(calls) = 2
    /\ failed = {1}
    /\ ResultIds = {2}

\* ------------------------------------------------------------------------
\* Properties of the construction
\* ------------------------------------------------------------------------
\* The construction described by kIn has been attempted.
Constructed == kIn.via # "none" /\ evaluator # NotConstructed

\* No category list reaches the constructor, or an empty one.
NoCategories == kIn.categories \in {"missing", "None", "empty"}

\* No model reaches the constructor (from_config passes none) and the
\* environment holds no credential.
NoModelNoCredential ==
    /\ (kIn.via = "from_config" \/ kIn.model = "None")
    /\ kIn.api_key # "set"

\* C22: with an empty or missing category set, or with neither a model nor a
\* credential, the construction raises and leaves no evaluator; an evaluator that
\* is built holds the category list it was given and a model that was given or
\* made with the credential at hand.
C22_ConfigErrorAtConstruction ==
    Constructed =>
        /\ (NoCategories \/ NoModelNoCredential) =>
              /\ evaluator.status \in {"ValueError", "TypeError"}
              /\ evaluator = NoEvaluator(evaluator.status)
        /\ (evaluator.status = "ok") =>
              /\ kIn.categories = "list"
              /\ evaluator.categories = Categories
              /\ (evaluator.model = "given") \/ (kIn.api_key = "set")

\* C22 witness: a construction with a category list but with neither a model nor
\* a credential has raised ValueError.
C22_Witness ==
    /\ Constructed
    /\ kIn.categories = "list"
    /\ NoModelNoCredential
    /\ evaluator = NoEvaluator("ValueError")

\* ------------------------------------------------------------------------
\* Ownership of the values passed between the components
\* ------------------------------------------------------------------------
\* C23: no component mutates another component's output; within the processing
\* of one input an opinion, once returned by its parser, the validity flag, once
\* returned by the validator, and the verdict, once returned by the combiner,
\* are left as they are by every later step.
C23_OutputsNotMutated ==
    [][/\ (pc \in {"backup", "negative", "validate", "combine", "debug", "clean"}) =>
             parser_results'.primary = parser_results.primary
       /\ (pc \in {"negative", "validate", "combine", "debug", "clean"}) =>
             parser_results'.backup = parser_results.backup
       /\ (pc \in {"validate", "combine", "debug", "clean"}) =>
             parser_results'.negative = parser_results.negative
       /\ (pc \in {"combine", "debug", "clean"}) =>
             validation_result' = validation_result
       /\ (pc \in {"debug", "clean"}) =>
             combined_result' = combined_result
      ]_vars

\* ------------------------------------------------------------------------
\* Independence of the inputs
\* ------------------------------------------------------------------------
\* The verdict invoke returns when the collaborator answers r to the three
\* strategies, computed on its own.
VerdictFor(r) ==
    LET primary == PrimaryParser_invoke(r.primary)
        verdict == StrategyCombiner_invoke(
                       [primary |-> primary,
                        backup |-> BackupParser_invoke(r.backup),
                        negative |-> NegativeChecker_invoke(r.negative),
                        validation_result |-> SchemaValidator_invoke(primary)])
    IN [verdict EXCEPT !.has_debug = TRUE]

\* C24: calls of invoke leave the evaluator (category list, parsers, validator,
\* combiner) as it was built, and the verdict a call returns is determined by the
\* collaborator's responses to that call alone: it is the one computed from them
\* in isolation, and two calls with the same responses return the same verdict,
\* whatever ran before them or runs in between.
C24_InputsIndependent ==
    /\ evaluator = DefaultEvaluator
    /\ \A p \in Procs :
          (frame[p].pc = "returned") =>
              frame[p].combined_result = VerdictFor(frame[p].responses)
    /\ \A p, q \in Procs :
          (/\ frame[p].pc = "returned"
           /\ frame[q].pc = "returned"
           /\ frame[p].responses = frame[q].responses) =>
              frame[p].combined_result = frame[q].combined_result

\* C24 witness: two calls in flight at once have returned different verdicts,
\* each the one of its own responses.
C24_Witness ==
    /\ frame[1].pc = "returned"
    /\ frame[2].pc = "returned"
    /\ frame[1].combined_result.call_type = "BILLING"
    /\ frame[1].combined_result.confidence = "high"
    /\ frame[2].combined_result.call_type = NULL
    /\ frame[2].responses.backup # frame[1].responses.backup
    /\ evaluator = DefaultEvaluator

\* ------------------------------------------------------------------------
\* Termination of a batch
\* ------------------------------------------------------------------------
\* C25: a batch run that has started ends, with its report or with the
\* exception of the metrics, even if a collaborator call never returns.
C25_BatchTerminates ==
    (pc # "idle") ~> (pc \in {"done", "raised"})

\* ------------------------------------------------------------------------
\* Confidence tiers of the combiner
\* ------------------------------------------------------------------------
\* The primary opinion is valid, both opinions carry the same non-null label and
\* the negative check does not say not-classifiable.
Corroborated ==
    /\ cIn.validation_result
    /\ LabelOf(cIn.primary) # NULL
    /\ LabelOf(cIn.primary) = LabelOf(cIn.backup)
    /\ ~NotClassifiable

\* C26: every verdict the combiner returns carries a confidence among high,
\* medium and low; it is low exactly when the label is null and high exactly
\* when the opinions are corroborated.
C26_ConfidenceTiers ==
    (Combined /\ cOut.status = "ok") =>
        /\ cOut.has_confidence
        /\ cOut.confidence \in {"high", "medium", "low"}
        /\ (cOut.confidence = "low") <=> (cOut.call_type = NULL)
        /\ (cOut.confidence = "high") <=> Corroborated

\* C26 witness: with an unclear negative flag, which is not not-classifiable, an
\* agreement on CLAIMS under a valid primary opinion has been given high.
C26_Witness ==
    /\ Combined
    /\ cIn.negative = "maybe"
    /\ cIn.validation_result
    /\ cIn.primary = MapOpinion("CLAIMS")
    /\ cIn.backup = MapOpinion("CLAIMS")
    /\ VerdictIs(cOut, "CLAIMS", "high", FALSE)

\* ------------------------------------------------------------------------
\* The two variants of the decision policy
\* ------------------------------------------------------------------------
\* C27: on the same opinions and flags, combine_results of the standalone script
\* and StrategyCombiner.invoke of the library return verdicts with the same
\* label, the same confidence (unknown when absent) and the same needs_human
\* value (false when absent).
C27_VariantsEquivalent ==
    (cOut.status = "ok" /\ sOut.status = "ok") =>
        /\ sOut.call_type = cOut.call_type
        /\ GetConfidence(sOut) = GetConfidence(cOut)
        /\ GetNeedsHuman(sOut) = GetNeedsHuman(cOut)

\* ------------------------------------------------------------------------
\* Effect of the negative check on the verdict
\* ------------------------------------------------------------------------
\* The order of the tiers.
Rank(c) == CASE c = "low" -> 1 [] c = "medium" -> 2 [] c = "high" -> 3 [] OTHER -> 0

\* What the combiner returns on the same opinions and validity flag when the
\* negative check says classifiable.
IfClassifiable == StrategyCombiner_invoke([cIn EXCEPT !.negative = "yes"])

\* C28: the negative check can only weaken a verdict. Compared with the verdict
\* for classifiable on the same opinions and validity flag, the verdict for
\* not-classifiable has no higher confidence, carries a non-null label only if
\* the other carries the same, and differs only when the primary opinion is
\* valid with a non-null label.
C28_NegativeOnlyWeakens ==
    (Combined /\ NotClassifiable /\ cOut.status = "ok") =>
        /\ IfClassifiable.status = "ok"
        /\ Rank(GetConfidence(cOut)) <= Rank(GetConfidence(IfClassifiable))
        /\ (cOut.call_type # NULL) => (IfClassifiable.call_type = cOut.call_type)
        /\ (cOut # IfClassifiable) =>
              (cIn.validation_result /\ LabelOf(cIn.primary) # NULL)

\* C28 witness: under not-classifiable a valid BILLING opinion that the backup
\* contradicts has been rejected, where classifiable gives BILLING with medium.
C28_Witness ==
    /\ Combined
    /\ NotClassifiable
    /\ cIn.validation_result
    /\ cIn.primary = MapOpinion("BILLING")
    /\ cIn.backup = MapOpinion("CLAIMS")
    /\ cOut = LowVerdict
    /\ VerdictIs(IfClassifiable, "BILLING", "medium", FALSE)

====
